---- MODULE Spec2Model ----
(***************************************************************************)
(* Model of the CRD-to-sample-YAML walker: pkg.Generate,                   *)
(* Parser.ParseProperties, outputValueType, emptyAfterTrimRequired and the *)
(* property tree builder parseCRD.                                         *)
(*                                                                         *)
(* Strings that the program builds are sequences of string tokens, so that *)
(* concatenation, strings.Repeat, strings.Split and fmt.Sprintf are        *)
(* computed and not assumed.  A Go pointer or nil-able slice is a sequence *)
(* of length at most one: <<>> is nil, <<x>> points at x.                  *)
(***************************************************************************)
EXTENDS Integers, Sequences, FiniteSets, TLC

VARIABLES
    crd,      \* the CustomResourceDefinition handed to Generate / Render
    opts,     \* Generate's enableComments, minimal, skipRandom
    parser,   \* the Parser: comments, inArray, indent, group, kind, ...
    stack,    \* active ParseProperties calls, innermost last
    sink,     \* every call made on the io.WriteCloser, in order
    pc,       \* position of Generate: "loop", "walk", "done", "panic"
    idx,      \* Generate's loop index i over crd.Spec.Versions (1-based)
    result,   \* the error Generate returned (<<>> is nil)
    last,     \* the field visit ParseProperties made last
    trees     \* parseCRD's result per version, as Render collects them

vars == <<crd, opts, parser, stack, sink, pc, idx, result, last, trees>>

----------------------------------------------------------------------------
(* Bounds of the model *)

\* most versions of a CRD
MaxVersions == 2
\* most Write calls the sink fails in one run
MaxFailures == 1
\* most elements an array placeholder is asked for (minItems)
MaxMinItems == 1

----------------------------------------------------------------------------
(* Go values *)

Nil == <<>>
Some(x) == <<x>>
IsNil(p) == Len(p) = 0
Deref(p) == p[1]

\* a map with no key
EmptyMap == [k \in {} |-> Nil]

array == "array"

\* The key alphabet in the order sort.Strings puts it.
KeyOrder == <<"a", "apiVersion", "kind">>

\* sort.Strings over the keys of a map
RECURSIVE Insert(_, _)
Insert(k, s) ==
    IF s = <<>> THEN <<k>>
    ELSE LET pos(x) == CHOOSE i \in 1..Len(KeyOrder) : KeyOrder[i] = x
         IN IF pos(k) <= pos(Head(s)) THEN <<k>> \o s
            ELSE <<Head(s)>> \o Insert(k, Tail(s))

RECURSIVE SortStrings(_)
SortStrings(keys) ==
    IF keys = {} THEN <<>>
    ELSE LET k == CHOOSE x \in keys : TRUE
         IN Insert(k, SortStrings(keys \ {k}))

\* strings.Repeat(s, n)
Repeat(s, n) == [i \in 1..n |-> s]

\* strings.Split(s, "\n") on a token string: the pieces between "\n" tokens
RECURSIVE Split(_)
Split(s) ==
    IF \A i \in 1..Len(s) : s[i] # "\n" THEN <<s>>
    ELSE LET i == CHOOSE j \in 1..Len(s) :
                    s[j] = "\n" /\ \A h \in 1..(j-1) : s[h] # "\n"
         IN <<SubSeq(s, 1, i-1)>> \o Split(SubSeq(s, i+1, Len(s)))

\* strings.Join(items, ",")
RECURSIVE Join(_)
Join(items) ==
    IF items = <<>> THEN <<>>
    ELSE IF Len(items) = 1 THEN <<items[1]>>
    ELSE <<items[1], ",">> \o Join(Tail(items))

\* slices.Contains / the search loop of parseCRD
Contains(list, k) == \E i \in 1..Len(list) : list[i] = k

\* A JSONSchemaProps value.
Schema(type, desc, props, req, items, ap, dflt, example, pattern, enum, minimum, minItems) ==
    [Type |-> type, Description |-> desc, Properties |-> props, Required |-> req,
     Items |-> items, AdditionalProperties |-> ap, Default |-> dflt,
     Example |-> example, Pattern |-> pattern, Enum |-> enum,
     Minimum |-> minimum, MinItems |-> minItems, Format |-> "", Nullable |-> FALSE]

\* JSONSchemaPropsOrArray / JSONSchemaPropsOrBool: only the Schema pointer matters
OrSchema(s) == [Schema |-> s]

----------------------------------------------------------------------------
(* outputValueType *)

\* patterns regexp.Compile rejects
InvalidPatterns == {"["}
CompileOK(pattern) == pattern \notin InvalidPatterns
\* gofakeit.Regex: some string the pattern matches
gofakeitRegex(pattern) == <<"~", pattern>>

Panic == [panic |-> TRUE, val |-> <<>>]
Val(s) == [panic |-> FALSE, val |-> s]

outputValueType(v, skipRandom) ==
    IF ~IsNil(v.Default) THEN Val(Deref(v.Default))
    ELSE IF ~IsNil(v.Example) THEN Val(Deref(v.Example))
    ELSE IF v.Pattern # "" /\ ~skipRandom /\ CompileOK(v.Pattern)
         THEN Val(gofakeitRegex(v.Pattern) \o <<" # ", v.Pattern>>)
    ELSE IF ~IsNil(v.Enum)
         THEN IF Len(Deref(v.Enum)) = 0 THEN Panic   \* v.Enum[0] out of range
              ELSE Val(Deref(v.Enum)[1])
    ELSE CASE v.Type = "string" -> Val(<<"string">>)
           [] v.Type = "integer" ->
                IF ~IsNil(v.Minimum) THEN Val(<<ToString(Deref(v.Minimum))>>)
                ELSE Val(<<"1">>)
           [] v.Type = "boolean" -> Val(<<"true">>)
           [] v.Type = "object" -> Val(<<"{}">>)
           [] v.Type = array ->
                IF IsNil(v.Items) \/ IsNil(Deref(v.Items).Schema)
                THEN Panic                            \* v.Items.Schema.Type on nil
                ELSE LET t == Deref(Deref(v.Items).Schema).Type
                         items == IF IsNil(v.MinItems) THEN <<>>
                                  ELSE Repeat(t, Deref(v.MinItems))
                     IN Val(<<"[">> \o Join(items) \o
                            <<"] # minItems ", ToString(Len(items)), " of type ", t>>)
           [] OTHER -> Val(<<v.Type>>)

----------------------------------------------------------------------------
(* emptyAfterTrimRequired: the map after the deletions, and the answer *)

TrimRequired(properties, required) ==
    [k \in {x \in DOMAIN properties : Contains(required, x)} |-> properties[k]]

emptyAfterTrimRequired(properties, required) ==
    DOMAIN TrimRequired(properties, required) = {}

----------------------------------------------------------------------------
(* parseCRD: the property tree builder *)

Property(k, v, version, required, children) ==
    [Name |-> k, Type |-> v.Type, Description |-> v.Description,
     Patterns |-> v.Pattern, Format |-> v.Format, Nullable |-> v.Nullable,
     Version |-> version, Required |-> required,
     Default |-> IF ~IsNil(v.Default) THEN Deref(v.Default) ELSE <<>>,
     Properties |-> children]

\* Which of the three branches of parseCRD a node takes: "properties",
\* "items", "additional", "none", or "panic" for a nil dereference.
TreeBranch(v) ==
    IF DOMAIN v.Properties # {} /\ IsNil(v.AdditionalProperties) THEN "properties"
    ELSE IF v.Type = array /\ IsNil(v.Items) THEN "panic"
    ELSE IF v.Type = array /\ ~IsNil(Deref(v.Items).Schema)
            /\ DOMAIN Deref(Deref(v.Items).Schema).Properties # {} THEN "items"
    ELSE IF ~IsNil(v.AdditionalProperties)
         THEN IF IsNil(Deref(v.AdditionalProperties).Schema) THEN "panic"
              ELSE "additional"
    ELSE "none"

\* The mapping parseCRD recurses into on that branch.
TreeChildMap(v) ==
    CASE TreeBranch(v) = "properties" -> v.Properties
      [] TreeBranch(v) = "items" -> Deref(Deref(v.Items).Schema).Properties
      [] TreeBranch(v) = "additional" ->
            Deref(Deref(v.AdditionalProperties).Schema).Properties
      [] OTHER -> EmptyMap

\* The requiredList the loop carries on after visiting v: every recursing
\* branch assigns v.Required to the loop's own requiredList.
NextRequiredList(v, requiredList) ==
    IF TreeBranch(v) \in {"properties", "items", "additional"} THEN v.Required
    ELSE requiredList

RECURSIVE parseCRD(_, _, _)
RECURSIVE parseCRDLoop(_, _, _, _)
\* The body of parseCRD's loop over sortedKeys, from key keys[1] on.
parseCRDLoop(properties, version, keys, requiredList) ==
    IF keys = <<>> THEN [panic |-> FALSE, out |-> <<>>]
    ELSE
      LET k == Head(keys)
          v == properties[k]
          required == Contains(requiredList, k)
          b == TreeBranch(v)
          nextList == NextRequiredList(v, requiredList)
          sub == IF b \in {"properties", "items", "additional"}
                 THEN parseCRD(TreeChildMap(v), version, nextList)
                 ELSE [panic |-> FALSE, out |-> <<>>]
      IN IF b = "panic" \/ sub.panic THEN [panic |-> TRUE, out |-> <<>>]
         ELSE LET rest == parseCRDLoop(properties, version, Tail(keys), nextList)
              IN IF rest.panic THEN rest
                 ELSE [panic |-> FALSE,
                       out |-> <<Property(k, v, version, required, sub.out)>> \o rest.out]

parseCRD(properties, version, requiredList) ==
    parseCRDLoop(properties, version, SortStrings(DOMAIN properties), requiredList)

----------------------------------------------------------------------------
(* writer.write and the io.WriteCloser *)

\* the error value a failing Write / Close of the sink returns
WriteErr == <<"write failed">>
CloseErr == <<"close failed">>

WriteCall(msg, ok) == [op |-> "Write", msg |-> msg, ok |-> ok]
CloseCall(ok) == [op |-> "Close", msg |-> <<>>, ok |-> ok]

\* number of Write calls the sink has failed
FailCount(calls) == Cardinality({i \in 1..Len(calls) : calls[i].op = "Write" /\ ~calls[i].ok})

\* A writer at work inside one field visit: err is w.err, sink the calls made
\* so far, outs the outcomes the sink will give to its next Write calls,
\* issued every msg handed to w.write (whether or not it reached the sink).
write(ws, msg) ==
    IF ws.err # Nil THEN [ws EXCEPT !.issued = Append(@, msg)]
    ELSE [err |-> IF Head(ws.outs) THEN Nil ELSE WriteErr,
          sink |-> Append(ws.sink, WriteCall(msg, Head(ws.outs))),
          outs |-> Tail(ws.outs),
          issued |-> Append(ws.issued, msg)]

\* fmt.Errorf(prefix + ": %w", err)
Errorf(prefix, err) == <<prefix>> \o err

\* errors.Join(err, cerr): nil values are dropped, the rest joined by "\n"
ErrorsJoin(err, cerr) ==
    IF err = Nil THEN cerr
    ELSE IF cerr = Nil THEN err
    ELSE err \o <<"\n">> \o cerr

\* the close error overwriting the processing error
DeferredClose_Overwrite(err, closeOK) ==
    IF closeOK THEN err ELSE CloseErr

\* Generate's deferred function: Close, and the join when Close fails
DeferredClose(err, closeOK) ==
    IF closeOK THEN err ELSE ErrorsJoin(err, CloseErr)

----------------------------------------------------------------------------
(* Parser.ParseProperties: one iteration of the loop over sortedKeys *)

NewParser(group, kind, comments, requiredOnly, skipRandom) ==
    [comments |-> comments, inArray |-> FALSE, indent |-> 0, group |-> group,
     kind |-> kind, onlyRequired |-> requiredOnly, skipRandom |-> skipRandom]

\* entry of ParseProperties: sortedKeys and the fresh writer
NewFrame(version, properties) ==
    [version |-> version, properties |-> properties,
     keys |-> SortStrings(DOMAIN properties), err |-> Nil]

\* the comment lines of lines 400-404
RECURSIVE CommentLines(_, _)
CommentLines(lines, indent) ==
    IF lines = <<>> THEN <<>>
    ELSE Repeat(" ", indent) \o <<"# ">> \o Head(lines) \o <<"\n">>
         \o CommentLines(Tail(lines), indent)

\* whether this visit writes the description as a comment
WritesComment(p, v) == ~p.inArray /\ p.comments /\ v.Description # <<>>

\* lines 395-410: the comment and the key
KeyEmit(ws, p, k, v) ==
    IF p.inArray THEN write(ws, <<k, ":">>)
    ELSE LET wc == IF WritesComment(p, v)
                   THEN write(ws, CommentLines(Split(v.Description), p.indent))
                   ELSE ws
         IN write(wc, Repeat(" ", p.indent) \o <<k, ":">>)

HasItemProperties(v) ==
    /\ ~IsNil(Deref(v.Items).Schema)
    /\ DOMAIN Deref(Deref(v.Items).Schema).Properties # {}

\* line 413, with a misspelt name
ApiVersionField_WrongCase(k) == k = "apiversion"

\* line 413
ApiVersionField(k) == k = "apiVersion"

\* line 419
KindAtTopLevel(k, indent) == k = "kind" /\ indent = 0

\* the short cut of lines 431, 449, 469 never taken
TrimsToEmpty_Never(onlyRequired, properties, required) == FALSE

\* lines 431, 449, 469: the guard of the empty-object short cut
TrimsToEmpty(onlyRequired, properties, required) ==
    onlyRequired /\ emptyAfterTrimRequired(properties, required)

\* The arm of the switch of lines 411-488 that a field takes.
EmitBranch(k, v, p) ==
    IF DOMAIN v.Properties = {} /\ IsNil(v.AdditionalProperties)
    THEN IF ApiVersionField(k) THEN "apiVersion"
         ELSE IF KindAtTopLevel(k, p.indent) THEN "kind"
         ELSE IF v.Type = array /\ IsNil(v.Items) THEN "panic"
         ELSE IF v.Type = array /\ HasItemProperties(v)
              THEN IF TrimsToEmpty(p.onlyRequired,
                                   Deref(Deref(v.Items).Schema).Properties,
                                   Deref(Deref(v.Items).Schema).Required)
                   THEN "arrayEmpty" ELSE "array"
         ELSE IF outputValueType(v, p.skipRandom).panic THEN "panic"
         ELSE "value"
    ELSE IF DOMAIN v.Properties # {}
    THEN IF TrimsToEmpty(p.onlyRequired, v.Properties, v.Required)
         THEN "objectEmpty" ELSE "object"
    ELSE \* v.AdditionalProperties # nil
         IF \/ DOMAIN v.Properties = {}
            \/ IsNil(Deref(v.AdditionalProperties).Schema)
            \/ DOMAIN Deref(Deref(v.AdditionalProperties).Schema).Properties = {}
         THEN "mapMarker"
         ELSE IF TrimsToEmpty(p.onlyRequired,
                              Deref(Deref(v.AdditionalProperties).Schema).Properties,
                              Deref(Deref(v.AdditionalProperties).Schema).Required)
              THEN "mapEmpty" ELSE "map"

\* the schema whose properties the arm passes to the recursive call
EmitChildSchema(v, branch) ==
    CASE branch = "array" -> Deref(Deref(v.Items).Schema)
      [] branch = "object" -> v
      [] branch = "map" -> Deref(Deref(v.AdditionalProperties).Schema)

\* the mapping handed to the recursive call: emptyAfterTrimRequired has
\* deleted the keys that are not required when onlyRequired is set
EmitChildMap(v, branch, onlyRequired) ==
    LET s == EmitChildSchema(v, branch)
    IN IF onlyRequired THEN TrimRequired(s.Properties, s.Required) ELSE s.Properties

EmptyObject == <<" {}\n">>

\* the writes of the arm, after the key
BranchEmit(ws, branch, k, v, p, version) ==
    CASE branch = "apiVersion" -> write(ws, <<" ", p.group, "/", version, "\n">>)
      [] branch = "kind" -> write(ws, <<" ", p.kind, "\n">>)
      [] branch = "array" -> write(ws, <<"\n">> \o Repeat(" ", p.indent) \o <<"- ">>)
      [] branch = "arrayEmpty" ->
            write(write(ws, <<"\n">> \o Repeat(" ", p.indent) \o <<"- ">>), EmptyObject)
      [] branch = "value" ->
            write(ws, <<" ">> \o outputValueType(v, p.skipRandom).val \o <<"\n">>)
      [] branch \in {"object", "map"} -> write(ws, <<"\n">>)
      [] branch \in {"objectEmpty", "mapEmpty", "mapMarker"} -> write(ws, EmptyObject)
      [] OTHER -> ws

Recurses(branch) == branch \in {"array", "object", "map"}

\* p.indent when the arm is left for the next statement
IndentAfterBranch(indent, branch) ==
    IF Recurses(branch) THEN indent + 2 ELSE indent

\* p.inArray when the arm is left
InArrayAfterBranch(branch) == branch = "array"

\* the decrement after the recursive call forgotten
IndentAfterReturn_Keep(indent) == indent

\* p.indent -= 2 after a recursive call that returned nil
IndentAfterReturn(indent) == indent - 2

----------------------------------------------------------------------------
(* The inputs: schemas of the CRD OpenAPI v3 subset *)

Names == {KeyOrder[i] : i \in 1..Len(KeyOrder)}

Leaf(type) == Schema(type, <<>>, EmptyMap, <<>>, Nil, Nil, Nil, Nil, "", Nil, Nil, Nil)

\* a two-line description
Desc2 == <<"first", "\n", "second">>

\* the plain described string field
StrD == [Leaf("string") EXCEPT !.Description = Desc2]

\* fields with neither properties nor additionalProperties
LeafSchemas ==
    { StrD, Leaf("integer"), Leaf("boolean"), Leaf("object"), Leaf("number"),
      [Leaf("integer") EXCEPT !.Minimum = Some(5)],
      [Leaf("string") EXCEPT !.Default = Some(<<"dflt">>), !.Example = Some(<<"ex">>)],
      [Leaf("string") EXCEPT !.Example = Some(<<"ex">>), !.Pattern = "^a$"],
      [Leaf("string") EXCEPT !.Pattern = "^a$", !.Enum = Some(<< <<"e1">>, <<"e2">> >>)],
      [Leaf("string") EXCEPT !.Pattern = "[", !.Enum = Some(<< <<"e1">>, <<"e2">> >>)],
      [Leaf("string") EXCEPT !.Enum = Some(<<>>)],
      Leaf(array),
      [Leaf(array) EXCEPT !.Items = Some(OrSchema(Nil))],
      [Leaf(array) EXCEPT !.Items = Some(OrSchema(Some(Leaf("string"))))],
      [Leaf(array) EXCEPT !.Items = Some(OrSchema(Some(Leaf("string")))),
                          !.MinItems = Some(MaxMinItems)] }

\* the required lists tried for a mapping: none, each key alone, all keys
RequiredLists(m) ==
    {<<>>} \cup {<<k>> : k \in DOMAIN m} \cup {SortStrings(DOMAIN m)}

\* an object schema with the given properties and required list
Scope(m, r) == [Leaf("object") EXCEPT !.Properties = m, !.Required = r]
ScopesOver(maps) == {Scope(m, r) : m \in maps, r \in UNION {RequiredLists(x) : x \in maps}}
ScopesOf(maps) == {s \in ScopesOver(maps) : s.Required \in RequiredLists(s.Properties)}

\* an array whose items are the scope
ArrayOf(s) == [Leaf(array) EXCEPT !.Items = Some(OrSchema(Some(s)))]
\* a map-like object: additionalProperties holds the scope
MapOf(s) == [Leaf("object") EXCEPT !.AdditionalProperties = Some(OrSchema(Some(s)))]
\* additionalProperties: true, no schema
MapAny == [Leaf("object") EXCEPT !.AdditionalProperties = Some(OrSchema(Nil))]
\* an object with properties of its own and additionalProperties too
ObjectAndMap(s, t) == [s EXCEPT !.AdditionalProperties = Some(OrSchema(Some(t)))]

\* the mappings of the innermost scopes
InnerMaps ==
    {k :> StrD : k \in Names} \cup {("a" :> StrD) @@ ("kind" :> StrD)}

\* the scope the deeper nestings are built around
KindScope == Scope("kind" :> StrD, <<"kind">>)

\* nodes that nest one level
Nested1 ==
    LET scopes == ScopesOf(InnerMaps)
    IN scopes \cup {ArrayOf(s) : s \in scopes}
       \cup {MapOf(s) : s \in {x \in scopes : x.Required = <<>>}}
       \cup {MapAny, [ArrayOf(KindScope) EXCEPT !.AdditionalProperties = Some(OrSchema(Nil))]}
       \cup {ObjectAndMap(s, t) : s \in {x \in scopes : Cardinality(DOMAIN x.Properties) = 1},
                                  t \in {Scope("a" :> StrD, <<>>)}}

\* nodes that nest two levels
Nested2 ==
    LET mid == {"a" :> c : c \in {KindScope, ArrayOf(KindScope), Scope("kind" :> StrD, <<>>)}}
               \cup {("a" :> KindScope) @@ ("kind" :> StrD)}
        scopes == ScopesOf(mid)
    IN scopes \cup {ArrayOf(s) : s \in scopes}

Nodes == LeafSchemas \cup Nested1 \cup Nested2

\* pairs of keys, the smaller first
KeyPairs == {<<KeyOrder[i], KeyOrder[j]>> : i, j \in 1..Len(KeyOrder)} 

\* top-level mappings over the given nodes: one field, or one field followed
\* (in key order) by the plain described string
MapsOver(keys, nodes) ==
    {k :> n : k \in keys, n \in nodes}
    \cup {(kp[1] :> n) @@ (kp[2] :> StrD) :
            kp \in {x \in KeyPairs : x[1] # x[2] /\ Insert(x[1], <<x[2]>>) = x
                                     /\ x[1] \in keys /\ x[2] \in keys},
            n \in nodes}

VersionNames == <<"v1", "v2", "v3", "v4">>

\* the version list of a CRD from the root mappings of its versions
Versions(maps, required) ==
    [i \in 1..Len(maps) |-> [Name |-> VersionNames[i], Properties |-> maps[i],
                             Required |-> required]]

CRD(versions) == [Group |-> "example.io", Kind |-> "Widget", Versions |-> versions]

\* root mappings of the CRDs with several versions
SmallMaps == MapsOver({"a", "kind"}, {KindScope, ArrayOf(KindScope)})

\* the version lists: one version over every mapping, and up to MaxVersions
\* versions over the small mappings
VersionMaps ==
    {<<m>> : m \in MapsOver(Names, Nodes)}
    \cup UNION {[1..n -> SmallMaps] : n \in 0..MaxVersions}

----------------------------------------------------------------------------
(* State *)

NoVisit ==
    [k |-> "", v |-> StrD, version |-> "", depth |-> 0, indent |-> 0,
     inArray |-> FALSE, branch |-> "none", issued |-> <<>>, sinkBefore |-> 0,
     sinkAfter |-> 0, errBefore |-> Nil, keyAt |-> 0, recursed |-> FALSE,
     indentAfter |-> 0, inArrayAfter |-> FALSE]

NoTrees == [done |-> FALSE, panic |-> FALSE, out |-> <<>>]

\* Generate(crd, w, enableComments, minimal, skipRandom) has been called and
\* has built its Parser; nothing is written yet.
Init ==
    /\ crd \in {CRD(Versions(maps, <<>>)) : maps \in VersionMaps}
    /\ opts \in [enableComments : BOOLEAN, minimal : BOOLEAN, skipRandom : BOOLEAN]
    /\ parser = NewParser(crd.Group, crd.Kind, opts.enableComments, opts.minimal,
                          opts.skipRandom)
    /\ stack = <<>>
    /\ sink = <<>>
    /\ pc = "loop"
    /\ idx = 1
    /\ result = [returned |-> FALSE, err |-> Nil]
    /\ last = NoVisit
    /\ trees = NoTrees

Top == stack[Len(stack)]

----------------------------------------------------------------------------
(* Generate *)

\* line 337: the call of ParseProperties for version i
StartVersion ==
    /\ pc = "loop"
    /\ idx <= Len(crd.Versions)
    /\ stack' = <<NewFrame(crd.Versions[idx].Name, crd.Versions[idx].Properties)>>
    /\ pc' = "walk"
    /\ UNCHANGED <<crd, opts, parser, sink, idx, result, last, trees>>

\* Generate returns err: the deferred function closes the sink first
Return(calls, err, closeOK) ==
    /\ sink' = Append(calls, CloseCall(closeOK))
    /\ result' = [returned |-> TRUE, err |-> DeferredClose(err, closeOK)]
    /\ pc' = "done"
    /\ stack' = <<>>

\* line 348: the loop is over
Finish ==
    /\ pc = "loop"
    /\ idx > Len(crd.Versions)
    /\ \E closeOK \in BOOLEAN : Return(sink, Nil, closeOK)
    /\ UNCHANGED <<crd, opts, parser, idx, last, trees>>

\* lines 394-488: the visit of the next key of the innermost call
VisitField ==
    /\ pc = "walk"
    /\ Top.keys # <<>>
    /\ \E failAt \in 0..4, closeOK \in BOOLEAN :
         LET \* one writer serves the visit, so at most one of its (at most
             \* four) Write calls fails: the failAt-th, or none
             outs == [i \in 1..4 |-> i # failAt]
             f == Top
             k == Head(f.keys)
             v == f.properties[k]
             ws0 == [err |-> f.err, sink |-> sink, outs |-> outs, issued |-> <<>>]
             ws1 == KeyEmit(ws0, parser, k, v)
             p1 == [parser EXCEPT !.inArray = FALSE]
             branch == EmitBranch(k, v, p1)
             ws2 == BranchEmit(ws1, branch, k, v, p1, f.version)
             visit == [k |-> k, v |-> v, version |-> f.version, depth |-> Len(stack),
                       indent |-> parser.indent, inArray |-> parser.inArray,
                       branch |-> branch, issued |-> ws2.issued,
                       sinkBefore |-> Len(sink), sinkAfter |-> Len(ws2.sink),
                       errBefore |-> f.err,
                       keyAt |-> IF ws1.err = Nil THEN Len(ws1.sink) ELSE 0,
                       recursed |-> Recurses(branch),
                       indentAfter |-> IndentAfterBranch(parser.indent, branch),
                       inArrayAfter |-> InArrayAfterBranch(branch)]
             f2 == [f EXCEPT !.keys = Tail(@), !.err = ws2.err]
             below == [stack EXCEPT ![Len(stack)] = f2]
         IN /\ \A i \in 1..Len(ws2.outs) : ws2.outs[i]
            /\ FailCount(ws2.sink) <= MaxFailures
            /\ last' = visit
            /\ IF branch = "panic"
               THEN \* the panic unwinds through Generate's deferred Close
                    /\ sink' = Append(ws2.sink, CloseCall(closeOK))
                    /\ pc' = "panic"
                    /\ stack' = below
                    /\ parser' = p1
               ELSE /\ closeOK
                    /\ sink' = ws2.sink
                    /\ pc' = "walk"
                    /\ parser' = [p1 EXCEPT !.indent = IndentAfterBranch(@, branch),
                                            !.inArray = InArrayAfterBranch(branch)]
                    /\ stack' = IF Recurses(branch)
                                THEN Append(below,
                                            NewFrame(f.version,
                                                     EmitChildMap(v, branch, parser.onlyRequired)))
                                ELSE below
    /\ UNCHANGED <<crd, opts, idx, result, trees>>

\* lines 491-495: what a finished call returns
ParseResult(f) ==
    IF f.err # Nil THEN Errorf("failed to write to file: ", f.err) ELSE Nil

\* lines 439-442, 457-460, 479-486: a nested call returns to its caller; an
\* error is returned on by every caller up to Generate (line 338)
ReturnNested ==
    /\ pc = "walk"
    /\ Len(stack) >= 2
    /\ Top.keys = <<>>
    /\ IF ParseResult(Top) = Nil
       THEN /\ stack' = SubSeq(stack, 1, Len(stack) - 1)
            /\ parser' = [parser EXCEPT !.indent = IndentAfterReturn(@)]
            /\ UNCHANGED <<sink, pc, result>>
       ELSE /\ \E closeOK \in BOOLEAN :
                 Return(sink, Errorf("failed to parse properties: ", ParseResult(Top)), closeOK)
            /\ UNCHANGED parser
    /\ UNCHANGED <<crd, opts, idx, last, trees>>

\* the delimiter written after the last version too
NeedsDelimiter_Always(i, n) == i <= n

\* line 341: a delimiter follows this version
NeedsDelimiter(i, n) == i < n

Delimiter == <<"\n---\n">>

\* lines 337-345: the top-level call returns to Generate
ReturnToGenerate ==
    /\ pc = "walk"
    /\ Len(stack) = 1
    /\ Top.keys = <<>>
    /\ \E ok \in BOOLEAN, closeOK \in BOOLEAN :
         IF ParseResult(Top) # Nil
         THEN /\ ok
              /\ Return(sink, Errorf("failed to parse properties: ", ParseResult(Top)), closeOK)
              /\ UNCHANGED idx
         ELSE IF NeedsDelimiter(idx, Len(crd.Versions))
         THEN LET calls == Append(sink, WriteCall(Delimiter, ok))
              IN /\ FailCount(calls) <= MaxFailures
                 /\ IF ok
                    THEN /\ closeOK
                         /\ sink' = calls
                         /\ idx' = idx + 1
                         /\ pc' = "loop"
                         /\ stack' = <<>>
                         /\ UNCHANGED result
                    ELSE /\ Return(calls,
                                   Errorf("failed to write yaml delimiter to writer: ", WriteErr),
                                   closeOK)
                         /\ UNCHANGED idx
         ELSE /\ ok /\ closeOK
              /\ idx' = idx + 1
              /\ pc' = "loop"
              /\ stack' = <<>>
              /\ UNCHANGED <<sink, result>>
    /\ UNCHANGED <<crd, opts, parser, last, trees>>

Next == StartVersion \/ VisitField \/ ReturnNested \/ ReturnToGenerate \/ Finish

Spec == Init /\ [][Next]_vars

----------------------------------------------------------------------------
(* Render: the property trees of all versions *)

RECURSIVE RenderLoop(_, _)
\* lines 65-69 for versions i.. of the CRD
RenderLoop(versions, i) ==
    IF i > Len(versions) THEN [panic |-> FALSE, out |-> <<>>]
    ELSE LET t == parseCRD(versions[i].Properties, versions[i].Name, versions[i].Required)
         IN IF t.panic THEN [panic |-> TRUE, out |-> <<>>]
            ELSE LET rest == RenderLoop(versions, i + 1)
                 IN IF rest.panic THEN rest
                    ELSE [panic |-> FALSE, out |-> <<t.out>> \o rest.out]

InitTree ==
    /\ crd \in {CRD(Versions(maps, r)) :
                  maps \in VersionMaps, r \in {<<>>, <<"a">>, <<"kind">>}}
    /\ opts = [enableComments |-> FALSE, minimal |-> FALSE, skipRandom |-> FALSE]
    /\ parser = NewParser(crd.Group, crd.Kind, FALSE, FALSE, FALSE)
    /\ stack = <<>>
    /\ sink = <<>>
    /\ pc = "loop"
    /\ idx = 1
    /\ result = [returned |-> FALSE, err |-> Nil]
    /\ last = NoVisit
    /\ trees = NoTrees

Render ==
    /\ ~trees.done
    /\ trees' = [done |-> TRUE, panic |-> RenderLoop(crd.Versions, 1).panic,
                 out |-> RenderLoop(crd.Versions, 1).out]
    /\ UNCHANGED <<crd, opts, parser, stack, sink, pc, idx, result, last>>

NextTree == Render

SpecTree == InitTree /\ [][NextTree]_vars

----------------------------------------------------------------------------
(* Properties *)

Visited == last.branch # "none"

\* the field has neither properties nor additionalProperties
LeafShaped(v) == DOMAIN v.Properties = {} /\ IsNil(v.AdditionalProperties)

\* the last message the visit handed to the writer
LastIssued == IF last.issued = <<>> THEN <<>> ELSE last.issued[Len(last.issued)]

\* no Write of the visit's call had failed before the visit or failed in it
VisitWritesOK ==
    /\ last.errBefore = Nil
    /\ \A i \in (last.sinkBefore + 1)..last.sinkAfter : sink[i].ok

\* the schema whose required list governs the children of a descriptor
ScopeSchemaOfChildren(v) ==
    CASE TreeBranch(v) = "items" -> Deref(Deref(v.Items).Schema)
      [] TreeBranch(v) = "additional" -> Deref(Deref(v.AdditionalProperties).Schema)
      [] OTHER -> v

RECURSIVE RequiredFromOwnScope(_, _, _)
RequiredFromOwnScope(properties, required, out) ==
    \A i \in 1..Len(out) :
        LET d == out[i]
            v == properties[d.Name]
        IN /\ d.Required = Contains(required, d.Name)
           /\ d.Properties # <<>> =>
                RequiredFromOwnScope(ScopeSchemaOfChildren(v).Properties,
                                     ScopeSchemaOfChildren(v).Required, d.Properties)

\* C1: in every tree parseCRD builds, a descriptor's Required flag is true
\* exactly when its name is in the required list of the scope that directly
\* contains it (object, array item schema, additionalProperties schema), at
\* every depth and whatever siblings were visited before it.
C1_RequiredFromImmediateScope ==
    (trees.done /\ ~trees.panic) =>
        \A i \in 1..Len(trees.out) :
            RequiredFromOwnScope(crd.Versions[i].Properties, crd.Versions[i].Required,
                                 trees.out[i])

\* C2: with required-only off and for a field not named apiVersion or kind,
\* the tree builder gives the field's descriptor children exactly when the
\* emitter recursed into the field, and both descended into the same mapping;
\* a field the emitter gave an inline value or "{}" has no children.
C2_SameClassification ==
    LET t == parseCRD(last.k :> last.v, last.version, <<>>)
    IN (Visited /\ ~opts.minimal /\ last.k \notin {"apiVersion", "kind"}
        /\ last.branch # "panic" /\ ~t.panic) =>
          /\ last.recursed <=> t.out[1].Properties # <<>>
          /\ last.recursed =>
                TreeChildMap(last.v) = EmitChildSchema(last.v, last.branch).Properties

\* C6: once a Write on the sink has failed, no further Write call is made on
\* the sink, at any recursion level.
C6_NoWriteAfterFailedWrite ==
    \A i, j \in 1..Len(sink) :
        (i < j /\ sink[i].op = "Write" /\ ~sink[i].ok) => sink[j].op # "Write"

\* C9: with comments enabled, whenever the key of a field with a non-empty
\* description reaches the sink (the first field of an array item included),
\* the write just before it is that field's comment lines.
C9_CommentPrecedesKey ==
    (Visited /\ opts.enableComments /\ last.v.Description # <<>> /\ last.keyAt > 0) =>
        /\ last.keyAt > 1
        /\ sink[last.keyAt - 1].op = "Write"
        /\ \E n \in {last.indent, last.indent + 2} :
              sink[last.keyAt - 1].msg = CommentLines(Split(last.v.Description), n)

\* C10: no call of Generate, ParseProperties, outputValueType or parseCRD
\* ends in a panic.
C10_NeverPanics == pc # "panic" /\ ~trees.panic

ApiVersionValue == <<" ", crd.Group, "/", last.version, "\n">>
KindValue == <<" ", crd.Kind, "\n">>
ValueOf(v) == <<" ">> \o outputValueType(v, opts.skipRandom).val \o <<"\n">>

\* the visit wrote msg as its inline value and went on to the next sibling:
\* no recursion, no panic, indentation unchanged; msg is the last thing handed
\* to the writer and, unless a Write of this call has failed, the last thing
\* the sink received from the visit
EndedInline(msg) ==
    /\ LastIssued = msg
    /\ ~last.recursed
    /\ last.branch # "panic"
    /\ last.indentAfter = last.indent
    /\ ~last.inArrayAfter
    /\ VisitWritesOK => sink[last.sinkAfter] = WriteCall(msg, TRUE)

IndentTracksDepth == pc = "walk" => parser.indent = 2 * (Len(stack) - 1)

ScopeEntered ==
    IF DOMAIN last.v.Properties # {} THEN Some(last.v)
    ELSE IF /\ IsNil(last.v.AdditionalProperties)
            /\ last.k # "apiVersion"
            /\ ~(last.k = "kind" /\ last.depth = 1)
            /\ last.v.Type = array /\ ~IsNil(last.v.Items) /\ HasItemProperties(last.v)
         THEN Some(Deref(Deref(last.v.Items).Schema))
    ELSE Nil

HasToken(err, tok) == \E i \in 1..Len(err) : err[i] = tok

\* C7: Generate closes the sink exactly once on every return path, after its
\* last write; the returned error is nil exactly when no Write failed and
\* Close succeeded; a failed Close is in the returned error together with the
\* processing error.
C7_ClosedOnceAndErrorsJoined ==
    LET closes == {i \in 1..Len(sink) : sink[i].op = "Close"}
    IN /\ pc \in {"loop", "walk"} => closes = {} /\ ~result.returned
       /\ pc \in {"done", "panic"} => closes = {Len(sink)}
       /\ pc = "done" =>
            /\ result.returned
            /\ result.err = Nil <=> (FailCount(sink) = 0 /\ sink[Len(sink)].ok)
            /\ ~sink[Len(sink)].ok => HasToken(result.err, CloseErr[1])
            /\ FailCount(sink) > 0 => HasToken(result.err, WriteErr[1])

C7_Witness ==
    /\ pc = "done"
    /\ FailCount(sink) > 0
    /\ ~sink[Len(sink)].ok
    /\ HasToken(result.err, CloseErr[1]) /\ HasToken(result.err, WriteErr[1])

Delimiters == {i \in 1..Len(sink) : sink[i].op = "Write" /\ sink[i].msg = Delimiter}

\* C8: while every write succeeds, the delimiters written are one after each
\* finished version that another version follows: none before the first
\* version, none after the last, n-1 in all for n versions, none for n <= 1.
C8_DelimitersBetweenVersions ==
    LET n == Len(crd.Versions)
    IN FailCount(sink) = 0 =>
         /\ idx <= n => Cardinality(Delimiters) = idx - 1
         /\ idx > n => Cardinality(Delimiters) = IF n = 0 THEN 0 ELSE n - 1
         /\ Len(sink) \in Delimiters => (pc \in {"loop", "walk"} /\ idx <= n)
         /\ pc = "done" => (idx = n + 1 /\ Len(sink) - 1 \notin Delimiters)

C8_Witness ==
    /\ pc = "done" /\ result.err = Nil
    /\ Len(crd.Versions) = 2
    /\ Cardinality(Delimiters) = 1

====
